---- MODULE Spec2Model ----
(***************************************************************************)
(* Model of the CompetitorAnalyzer React component                         *)
(* (frontend/src/components/CompetitorAnalyzer.tsx).                       *)
(*                                                                         *)
(* State: the five useState cells of the component, the analysis requests  *)
(* that have been issued and are still suspended at an await, and a        *)
(* history record of the last event.  One action per event handler and per *)
(* continuation of analyzeCompetitors after an await.                      *)
(*                                                                         *)
(* Strings that the code looks into (URLs, which it trims and compares)    *)
(* are sequences of characters.  Messages, which the code only stores, are *)
(* TLA+ strings.  A nullable cell is a sequence of length 0 (null) or 1.   *)
(*                                                                         *)
(* Two specifications:                                                     *)
(*   Spec       the component driven through its rendered controls: the    *)
(*              analyze button honours its disabled attribute and a remove *)
(*              button exists only for an index of the list;               *)
(*   CallSpec   the handlers invoked directly in any state, which reaches  *)
(*              the branches of the handlers that the rendered controls    *)
(*              never trigger (empty-list guard, overlapping requests).    *)
(***************************************************************************)
EXTENDS Integers, Sequences, FiniteSets, TLC

\* ---------------------------------------------------------------- bounds
\* most whitespace characters typed on either side of a URL
MaxPad == 1
\* most requests in flight at once when the handlers are called directly
MaxInFlight == 2

\* ------------------------------------------------------------ characters
Whitespace == {" "}

\* what is typed between the padding: nothing, a URL, a URL with a space inside
Cores == {<<>>, <<"a">>, <<"b", " ", "c">>}

RECURSIVE Spaces(_)
Spaces(n) == IF n = 0 THEN <<>> ELSE <<" ">> \o Spaces(n - 1)

InputStrings == {Spaces(i) \o core \o Spaces(j) : i \in 0..MaxPad, j \in 0..MaxPad, core \in Cores}

\* String.prototype.trim: drop leading, then trailing, whitespace
RECURSIVE trimStart(_)
trimStart(s) ==
  IF s = <<>> THEN <<>>
  ELSE IF Head(s) \in Whitespace THEN trimStart(Tail(s))
  ELSE s

RECURSIVE trimEnd(_)
trimEnd(s) ==
  IF s = <<>> THEN <<>>
  ELSE IF s[Len(s)] \in Whitespace THEN trimEnd(SubSeq(s, 1, Len(s) - 1))
  ELSE s

trim(s) == trimEnd(trimStart(s))

\* Array.prototype.includes
includes(list, x) == \E i \in 1..Len(list) : list[i] = x

\* Array.prototype.filter((_, i) => i !== index), index counted from 0
RECURSIVE filterNotIndex(_, _, _)
filterNotIndex(list, index, i) ==
  IF list = <<>> THEN <<>>
  ELSE IF i # index THEN <<Head(list)>> \o filterNotIndex(Tail(list), index, i + 1)
  ELSE filterNotIndex(Tail(list), index, i + 1)

\* ------------------------------------------------------- nullable values
Null == <<>>
Some(x) == <<x>>

\* ---------------------------------------------------------- environment
\* the three message literals of analyzeCompetitors (Russian in the source,
\* transliterated here): three distinct non-empty strings
ValidationMessage == "Dobav'te khotya by odin URL dlya analiza"
HttpFallbackMessage == "Oshibka pri analize"
ThrownFallbackMessage == "Proizoshla oshibka"

API_BASE == "http://localhost:8000"

\* 200 bodies: { report_text, pdf_path, charts }: a report with a PDF at
\* "/r/a b.pdf" and the charts "/c/1.png" and "2.png", and a report without either
Payloads ==
  { [report_text |-> "X",
     pdf_path |-> <<"/", "r", "/", "a", " ", "b", ".", "p", "d", "f">>,
     charts |-> << <<"/", "c", "/", "1", ".", "p", "n", "g">>, <<"2", ".", "p", "n", "g">> >>],
    [report_text |-> "Y", pdf_path |-> <<>>, charts |-> <<>>] }

\* non-2xx bodies { detail?: string }: detail is absent (Null) or a string
Details == {Null, Some(""), Some("bad url")}

\* values a rejected fetch() or response.json() throws: an Error with a
\* message, or a value that is not an Error
Thrown ==
  { [isError |-> TRUE, message |-> "Failed to fetch"],
    [isError |-> FALSE, message |-> "not an Error"] }

\* ---------------------------------------------------------------- state
VARIABLES urls, urlInput, isAnalyzing, result, error, requests, last

vars == <<urls, urlInput, isAnalyzing, result, error, requests, last>>

form == <<urls, urlInput>>
session == <<isAnalyzing, result, error>>

\* the last event: its name, the input it carried (at most one of detail, thrown,
\* data and index is not Null), whether it belongs to the most recent invocation,
\* and the URLs it passed to window.open
Event(op, newest) ==
  [op |-> op, newest |-> newest, detail |-> Null, thrown |-> Null, data |-> Null,
   index |-> Null, opened |-> <<>>]

Init ==
  /\ urls = <<>>
  /\ urlInput = <<>>
  /\ isAnalyzing = FALSE
  /\ result = Null
  /\ error = Null
  /\ requests = <<>>
  /\ last = Event("init", FALSE)

\* ------------------------------------------------------------- the form
\* <input onChange={(e) => setUrlInput(e.target.value)}>
onChange(value) ==
  /\ urlInput' = value
  /\ last' = Event("onChange", FALSE)
  /\ UNCHANGED <<urls, session, requests>>

addUrlAccepts == trim(urlInput) # <<>> /\ ~includes(urls, trim(urlInput))

\* addUrl appending the input as typed
addUrl_untrimmed ==
  /\ IF addUrlAccepts
       THEN /\ urls' = Append(urls, urlInput)
            /\ urlInput' = <<>>
       ELSE UNCHANGED form
  /\ last' = Event("addUrl", FALSE)
  /\ UNCHANGED <<session, requests>>

\* addUrl clearing the input field whether or not the URL was taken
addUrl_alwaysClears ==
  /\ IF addUrlAccepts
       THEN urls' = Append(urls, trim(urlInput))
       ELSE UNCHANGED urls
  /\ urlInput' = <<>>
  /\ last' = Event("addUrl", FALSE)
  /\ UNCHANGED <<session, requests>>

\* addUrl dropping the displayed result when the list changes
addUrl_invalidates ==
  /\ IF addUrlAccepts
       THEN /\ urls' = Append(urls, trim(urlInput))
            /\ urlInput' = <<>>
            /\ result' = Null
       ELSE UNCHANGED <<form, result>>
  /\ last' = Event("addUrl", FALSE)
  /\ UNCHANGED <<isAnalyzing, error, requests>>

\* addUrl putting the new URL first: setUrls([urlInput.trim(), ...urls])
addUrl_prepends ==
  /\ IF addUrlAccepts
       THEN /\ urls' = <<trim(urlInput)>> \o urls
            /\ urlInput' = <<>>
       ELSE UNCHANGED form
  /\ last' = Event("addUrl", FALSE)
  /\ UNCHANGED <<session, requests>>

addUrl ==
  /\ IF addUrlAccepts
       THEN /\ urls' = Append(urls, trim(urlInput))
            /\ urlInput' = <<>>
       ELSE UNCHANGED form
  /\ last' = Event("addUrl", FALSE)
  /\ UNCHANGED <<session, requests>>

\* removeUrl keeping only what precedes the index: urls.slice(0, index)
removeUrl_truncates(index) ==
  /\ urls' = SubSeq(urls, 1, IF index < 0 THEN Len(urls) + index ELSE index)
  /\ last' = [Event("removeUrl", FALSE) EXCEPT !.index = Some(index)]
  /\ UNCHANGED <<urlInput, session, requests>>

\* removeUrl by splice(index, 1) on a copy: a negative index counts from the end
removeUrl_splice(index) ==
  /\ urls' = filterNotIndex(urls, IF index < 0 THEN Len(urls) + index ELSE index, 0)
  /\ last' = [Event("removeUrl", FALSE) EXCEPT !.index = Some(index)]
  /\ UNCHANGED <<urlInput, session, requests>>

removeUrl(index) ==
  /\ urls' = filterNotIndex(urls, index, 0)
  /\ last' = [Event("removeUrl", FALSE) EXCEPT !.index = Some(index)]
  /\ UNCHANGED <<urlInput, session, requests>>

\* ------------------------------------------------------------ download
\* characters encodeURIComponent leaves alone: letters, digits, - _ . ! ~ * ' ( )
Unreserved ==
  {"a", "b", "c", "d", "e", "f", "g", "h", "i", "j", "k", "l", "m",
   "n", "o", "p", "q", "r", "s", "t", "u", "v", "w", "x", "y", "z",
   "A", "B", "C", "D", "E", "F", "G", "H", "I", "J", "K", "L", "M",
   "N", "O", "P", "Q", "R", "S", "T", "U", "V", "W", "X", "Y", "Z",
   "0", "1", "2", "3", "4", "5", "6", "7", "8", "9",
   "-", "_", ".", "!", "~", "*", "'", "(", ")"}

\* %XX of the other ASCII characters that occur in paths
Escapes ==
  [c \in {"/", " ", "%", "?", "&", "=", ":", "#", "+"} |->
     CASE c = "/" -> <<"%", "2", "F">>
       [] c = " " -> <<"%", "2", "0">>
       [] c = "%" -> <<"%", "2", "5">>
       [] c = "?" -> <<"%", "3", "F">>
       [] c = "&" -> <<"%", "2", "6">>
       [] c = "=" -> <<"%", "3", "D">>
       [] c = ":" -> <<"%", "3", "A">>
       [] c = "#" -> <<"%", "2", "3">>
       [] c = "+" -> <<"%", "2", "B">>]

RECURSIVE encodeURIComponent(_)
encodeURIComponent(s) ==
  IF s = <<>> THEN <<>>
  ELSE (IF Head(s) \in Unreserved THEN <<Head(s)>> ELSE Escapes[Head(s)])
       \o encodeURIComponent(Tail(s))

\* window.open(url, '_blank'); a URL is API_BASE, then the rest character by character
Opened(url) == [url |-> url, target |-> "_blank"]

\* downloadPDF passing the path as it is
downloadPDF_raw ==
  /\ last' = [Event("downloadPDF", FALSE) EXCEPT !.opened =
                IF result # Null /\ result[1].pdf_path # <<>>
                  THEN <<Opened(<<API_BASE, "/api/download?path=">> \o result[1].pdf_path)>>
                  ELSE <<>>]
  /\ UNCHANGED <<form, session, requests>>

downloadPDF ==
  /\ last' = [Event("downloadPDF", FALSE) EXCEPT !.opened =
                IF result # Null /\ result[1].pdf_path # <<>>
                  THEN <<Opened(<<API_BASE, "/api/download?path=">>
                                \o encodeURIComponent(result[1].pdf_path))>>
                  ELSE <<>>]
  /\ UNCHANGED <<form, session, requests>>

\* ------------------------------------------------------ results renderer
\* String.prototype.split(sep): the pieces between the separators, in order
RECURSIVE split(_, _)
split(s, sep) ==
  IF \A k \in 1..Len(s) : s[k] # sep THEN <<s>>
  ELSE LET first == CHOOSE k \in 1..Len(s) : s[k] = sep /\ \A m \in 1..(k - 1) : s[m] # sep
       IN  <<SubSeq(s, 1, first - 1)>> \o split(SubSeq(s, first + 1, Len(s)), sep)

\* Array.prototype.pop() of a non-empty array: its last element
pop(list) == list[Len(list)]

\* `${API_BASE}/charts/${chart}`: the stored path as it is
chartSrc_wholePath(chart) == <<API_BASE, "/charts/">> \o chart

\* `${API_BASE}/charts/${chart.split('/').pop()}`
chartSrc(chart) == <<API_BASE, "/charts/">> \o pop(split(chart, "/"))

\* the <img> elements of charts-grid, in document order (alt is `index + 1`)
chartImages ==
  IF result # Null /\ Len(result[1].charts) > 0
    THEN [i \in 1..Len(result[1].charts) |-> [src |-> chartSrc(result[1].charts[i]), alt |-> i]]
    ELSE <<>>

\* ------------------------------------------------ analysis session
\* an issued POST /api/analyze, suspended at an await of analyzeCompetitors:
\*   phase "fetch"    at `await fetch(...)`
\*   phase "jsonErr"  at `await response.json()` of a response that is not ok
\*   phase "jsonOk"   at `await response.json()` of an ok response
\* body is JSON.stringify({ urls }), newest marks the most recent invocation
Request(body, phase, newest) == [body |-> body, phase |-> phase, newest |-> newest]

notNewest(reqs) == [i \in 1..Len(reqs) |-> Request(reqs[i].body, reqs[i].phase, FALSE)]

removeAt(reqs, i) == SubSeq(reqs, 1, i - 1) \o SubSeq(reqs, i + 1, Len(reqs))

\* analyzeCompetitors without setError(null)
analyzeCompetitors_keepError ==
  IF Len(urls) = 0
    THEN /\ error' = Some(ValidationMessage)
         /\ last' = Event("analyzeEmpty", FALSE)
         /\ UNCHANGED <<form, isAnalyzing, result, requests>>
    ELSE /\ isAnalyzing' = TRUE
         /\ result' = Null
         /\ requests' = Append(notNewest(requests), Request(urls, "fetch", TRUE))
         /\ last' = Event("analyze", TRUE)
         /\ UNCHANGED <<form, error>>

\* analyzeCompetitors without setResult(null)
analyzeCompetitors_keepResult ==
  IF Len(urls) = 0
    THEN /\ error' = Some(ValidationMessage)
         /\ last' = Event("analyzeEmpty", FALSE)
         /\ UNCHANGED <<form, isAnalyzing, result, requests>>
    ELSE /\ isAnalyzing' = TRUE
         /\ error' = Null
         /\ requests' = Append(notNewest(requests), Request(urls, "fetch", TRUE))
         /\ last' = Event("analyze", TRUE)
         /\ UNCHANGED <<form, result>>

\* analyzeCompetitors without the return of its guard: the request is issued anyway
analyzeCompetitors_noReturn ==
  /\ isAnalyzing' = TRUE
  /\ error' = Null
  /\ result' = Null
  /\ requests' = Append(notNewest(requests), Request(urls, "fetch", TRUE))
  /\ last' = Event(IF Len(urls) = 0 THEN "analyzeEmpty" ELSE "analyze", TRUE)
  /\ UNCHANGED form

\* analyzeCompetitors up to its first await
analyzeCompetitors ==
  IF Len(urls) = 0
    THEN /\ error' = Some(ValidationMessage)
         /\ last' = Event("analyzeEmpty", FALSE)
         /\ UNCHANGED <<form, isAnalyzing, result, requests>>
    ELSE /\ isAnalyzing' = TRUE
         /\ error' = Null
         /\ result' = Null
         /\ requests' = Append(notNewest(requests), Request(urls, "fetch", TRUE))
         /\ last' = Event("analyze", TRUE)
         /\ UNCHANGED form

\* err.message without the instanceof test
caughtMessage_noInstanceof(err) == err.message

\* catch (err) { setError(...) } finally { setIsAnalyzing(false) }
caughtMessage(err) == IF err.isError THEN err.message ELSE ThrownFallbackMessage

\* the catch block without the finally block
catchFinally_noFinally(i, err, event) ==
  /\ error' = Some(caughtMessage(err))
  /\ requests' = removeAt(requests, i)
  /\ last' = event
  /\ UNCHANGED <<form, result, isAnalyzing>>

catchFinally(i, err, event) ==
  /\ error' = Some(caughtMessage(err))
  /\ isAnalyzing' = FALSE
  /\ requests' = removeAt(requests, i)
  /\ last' = event
  /\ UNCHANGED <<form, result>>

\* fetch() resolves with a response; response.ok picks the branch
fetchResolves(i, ok) ==
  /\ i \in 1..Len(requests)
  /\ requests[i].phase = "fetch"
  /\ requests' = [requests EXCEPT ![i].phase = IF ok THEN "jsonOk" ELSE "jsonErr"]
  /\ last' = Event("response", requests[i].newest)
  /\ UNCHANGED <<form, session>>

\* fetch() rejects
fetchRejects(i, err) ==
  /\ i \in 1..Len(requests)
  /\ requests[i].phase = "fetch"
  /\ catchFinally(i, err, [Event("fetchRejected", requests[i].newest) EXCEPT !.thrown = Some(err)])

\* errorData.detail ?? fallback: only an absent detail falls back
httpErrorMessage_nullish(detail) ==
  IF detail = Null THEN HttpFallbackMessage ELSE detail[1]

\* throw new Error(errorData.detail || fallback): an absent or empty detail is falsy
httpErrorMessage(detail) ==
  IF detail = Null \/ detail = Some("") THEN HttpFallbackMessage ELSE detail[1]

\* response.json() of a response that is not ok resolves with { detail? }
errorBodyParsed(i, detail) ==
  /\ i \in 1..Len(requests)
  /\ requests[i].phase = "jsonErr"
  /\ catchFinally(i, [isError |-> TRUE, message |-> httpErrorMessage(detail)],
                  [Event("httpError", requests[i].newest) EXCEPT !.detail = Some(detail)])

\* a continuation that drops the response of a superseded invocation
successBodyParsed_ignoreStale(i, data) ==
  /\ i \in 1..Len(requests)
  /\ requests[i].phase = "jsonOk"
  /\ IF requests[i].newest
       THEN result' = Some(data) /\ isAnalyzing' = FALSE
       ELSE UNCHANGED <<result, isAnalyzing>>
  /\ requests' = removeAt(requests, i)
  /\ last' = [Event("success", requests[i].newest) EXCEPT !.data = Some(data)]
  /\ UNCHANGED <<form, error>>

\* the ok branch with setResult but outside try/finally: the flag stays set
successBodyParsed_noFinally(i, data) ==
  /\ i \in 1..Len(requests)
  /\ requests[i].phase = "jsonOk"
  /\ result' = Some(data)
  /\ requests' = removeAt(requests, i)
  /\ last' = [Event("success", requests[i].newest) EXCEPT !.data = Some(data)]
  /\ UNCHANGED <<form, error, isAnalyzing>>

\* the ok branch resetting the form once the report is in
successBodyParsed_resetsForm(i, data) ==
  /\ i \in 1..Len(requests)
  /\ requests[i].phase = "jsonOk"
  /\ result' = Some(data)
  /\ isAnalyzing' = FALSE
  /\ urls' = <<>>
  /\ urlInput' = <<>>
  /\ requests' = removeAt(requests, i)
  /\ last' = [Event("success", requests[i].newest) EXCEPT !.data = Some(data)]
  /\ UNCHANGED error

\* response.json() of an ok response resolves with the payload
successBodyParsed(i, data) ==
  /\ i \in 1..Len(requests)
  /\ requests[i].phase = "jsonOk"
  /\ result' = Some(data)
  /\ isAnalyzing' = FALSE
  /\ requests' = removeAt(requests, i)
  /\ last' = [Event("success", requests[i].newest) EXCEPT !.data = Some(data)]
  /\ UNCHANGED <<form, error>>

\* response.json() rejects (the body is not JSON, the stream fails)
jsonRejects(i, err) ==
  /\ i \in 1..Len(requests)
  /\ requests[i].phase \in {"jsonOk", "jsonErr"}
  /\ catchFinally(i, err,
                  [Event(IF requests[i].phase = "jsonOk" THEN "okBodyRejected" ELSE "errorBodyRejected",
                         requests[i].newest) EXCEPT !.thrown = Some(err)])

\* ------------------------------------------------------- rendered controls
\* disabled={urls.length === 0}
analyzeDisabled_onlyEmpty == Len(urls) = 0

\* disabled={isAnalyzing}
analyzeDisabled_onlyBusy == isAnalyzing

\* <button onClick={analyzeCompetitors} disabled={isAnalyzing || urls.length === 0}>
analyzeDisabled == isAnalyzing \/ Len(urls) = 0

\* one remove button per element of urls.map((url, index) => ...)
removeButtons == 0..(Len(urls) - 1)

TypeInput == \E value \in InputStrings : onChange(value)
ClickAdd == addUrl
ClickRemove == \E index \in removeButtons : removeUrl(index)
ClickAnalyze == ~analyzeDisabled /\ analyzeCompetitors

\* {result && ( ... <button onClick={downloadPDF} className="download-btn"> ... )}
downloadRendered == result # Null
ClickDownload == downloadRendered /\ downloadPDF

FetchResolves == \E i \in 1..Len(requests), ok \in BOOLEAN : fetchResolves(i, ok)
FetchRejects == \E i \in 1..Len(requests), err \in Thrown : fetchRejects(i, err)
ErrorBodyParsed == \E i \in 1..Len(requests), detail \in Details : errorBodyParsed(i, detail)
SuccessBodyParsed == \E i \in 1..Len(requests), data \in Payloads : successBodyParsed(i, data)
JsonRejects == \E i \in 1..Len(requests), err \in Thrown : jsonRejects(i, err)

Network == FetchResolves \/ FetchRejects \/ ErrorBodyParsed \/ SuccessBodyParsed \/ JsonRejects

Next ==
  \/ TypeInput
  \/ ClickAdd
  \/ ClickRemove
  \/ ClickAnalyze
  \/ ClickDownload
  \/ FetchResolves
  \/ FetchRejects
  \/ ErrorBodyParsed
  \/ SuccessBodyParsed
  \/ JsonRejects

Spec == Init /\ [][Next]_vars

\* the promises of fetch and response.json settle: every suspended request is resumed
LiveSpec == Spec /\ WF_vars(Network)

\* ------------------------------------------------ handlers called directly
\* values the harness types: blank, padded, and two distinct URLs
CallInputs == {<<>>, <<" ">>, <<"a">>, <<" ", "a">>, <<"b", " ", "c">>}

\* indices the harness passes: below the list, in it, and past its end
CallIndices == -1..Len(urls)

CallTypeInput == \E value \in CallInputs : onChange(value)
CallAddUrl == addUrl
CallRemoveUrl == \E index \in CallIndices : removeUrl(index)
CallAnalyze == Len(requests) < MaxInFlight /\ analyzeCompetitors
CallDownload == downloadPDF

CallNext ==
  \/ CallTypeInput
  \/ CallAddUrl
  \/ CallRemoveUrl
  \/ CallAnalyze
  \/ CallDownload
  \/ FetchResolves
  \/ FetchRejects
  \/ ErrorBodyParsed
  \/ SuccessBodyParsed
  \/ JsonRejects

CallSpec == Init /\ [][CallNext]_vars

TypeOK ==
  /\ urlInput \in InputStrings
  /\ isAnalyzing \in BOOLEAN
  /\ Len(result) <= 1 /\ Len(error) <= 1
  /\ \A i \in 1..Len(requests) : requests[i].phase \in {"fetch", "jsonOk", "jsonErr"}

\* ================================================================ claims
AnalyzeOps == {"analyze", "analyzeEmpty"}
RejectOps == {"fetchRejected", "okBodyRejected", "errorBodyRejected"}
FailureOps == RejectOps \cup {"httpError"}
TerminalOps == FailureOps \cup {"success"}

\* C1: in every state reached through the controls at most one of isAnalyzing,
\* result non-null, error non-null holds (Idle is the state where none holds).
C1_OneSessionState ==
  /\ ~(isAnalyzing /\ result # Null)
  /\ ~(isAnalyzing /\ error # Null)
  /\ ~(result # Null /\ error # Null)

\* a Succeeded session reached by a response: only result holds
C1_Witness ==
  last.op = "success" /\ result # Null /\ error = Null /\ ~isAnalyzing

\* C2: with the promises settling, every analyze invocation that passed the
\* guard reaches a terminal step, the flag does not stay set, and right after
\* every terminal step (success, HTTP error, rejection) isAnalyzing is false.
C2_TerminalResetsFlag ==
  /\ [](last.op \in TerminalOps => ~isAnalyzing)
  /\ ((last.op = "analyze") ~> (last.op \in TerminalOps))
  /\ (isAnalyzing ~> ~isAnalyzing)

\* the exit path through a rejected response.json() of an error response
C2_Witness ==
  last.op = "errorBodyRejected" /\ ~isAnalyzing /\ requests = <<>>

\* C4: through the controls at most one POST /api/analyze is in flight.
C4_SingleFlight == Len(requests) <= 1

\* a request in flight while the list alone would allow a submit
C4_Witness ==
  Len(requests) = 1 /\ Len(urls) > 0 /\ isAnalyzing /\ last.op = "analyze"

\* the session state of the data model, read off the three cells
SessionKind(analyzing, res, err) ==
  IF analyzing THEN "Analyzing"
  ELSE IF res # Null THEN "Succeeded"
  ELSE IF err # Null THEN "Failed"
  ELSE "Idle"

\* C3 as stated: an analyze invocation on an empty list issues no request, shows
\* the validation message, keeps isAnalyzing and result, and leaves the session
\* in the state it was in.
C3_Original ==
  [][(last'.op \in AnalyzeOps /\ Len(urls) = 0) =>
       /\ requests' = requests
       /\ error' = Some(ValidationMessage)
       /\ isAnalyzing' = isAnalyzing
       /\ result' = result
       /\ SessionKind(isAnalyzing', result', error') = SessionKind(isAnalyzing, result, error)]_vars

\* C3 amended: an analyze invocation on an empty list issues no request and
\* writes the validation message to error; isAnalyzing, result, the list, the
\* input field and the requests in flight keep their values (error is the one
\* cell that changes).
C3_EmptyListOnlySetsError ==
  [][(last'.op \in AnalyzeOps /\ Len(urls) = 0) =>
       /\ requests' = requests
       /\ error' = Some(ValidationMessage)
       /\ isAnalyzing' = isAnalyzing
       /\ result' = result
       /\ form' = form]_vars

\* analyze invoked on an emptied list after a success: the result is still there
C3_Witness ==
  /\ last.op = "analyzeEmpty"
  /\ Len(urls) = 0
  /\ result # Null
  /\ error = Some(ValidationMessage)

\* C5: with overlapping requests none is cancelled: a request leaves the set of
\* requests in flight only by its own terminal step, and that step writes the
\* session state whether or not a later invocation exists, so the last response
\* to resolve decides result, error and isAnalyzing.
C5_NoCancellation ==
  [][/\ (Len(requests') < Len(requests) =>
           Len(requests') = Len(requests) - 1 /\ last'.op \in TerminalOps)
     /\ (last'.op \in AnalyzeOps => Len(requests') >= Len(requests))
     /\ (last'.op = "success" => result' = last'.data /\ ~isAnalyzing')
     /\ (last'.op \in FailureOps => error' # Null /\ result' = result /\ ~isAnalyzing')]_vars

\* the older of two overlapping requests resolved last and its payload is the result
C5_Witness ==
  /\ requests = <<>>
  /\ last.op = "success"
  /\ ~last.newest
  /\ result = last.data
  /\ ~isAnalyzing

\* C6: the submit control is enabled exactly when isAnalyzing is false and the
\* list is non-empty, and analyze is never started through it otherwise.
C6_SubmitEnabledIff ==
  [][/\ (ENABLED ClickAnalyze) <=> (~isAnalyzing /\ Len(urls) # 0)
     /\ (last'.op \in AnalyzeOps => ~isAnalyzing /\ Len(urls) # 0)]_vars

\* a displayed result whose list was emptied: the control is disabled
C6_Witness ==
  result # Null /\ Len(urls) = 0 /\ ~isAnalyzing /\ ~ENABLED ClickAnalyze

\* C7: the list has no duplicates, no blank entry, and every entry is trimmed.
C7_UniqueTrimmed ==
  /\ \A i, j \in 1..Len(urls) : urls[i] = urls[j] => i = j
  /\ \A i \in 1..Len(urls) :
       /\ urls[i] # <<>>
       /\ \E k \in 1..Len(urls[i]) : urls[i][k] \notin Whitespace
       /\ urls[i][1] \notin Whitespace
       /\ urls[i][Len(urls[i])] \notin Whitespace

\* addUrl was just refused a padded spelling of a URL of a two-entry list
C7_Witness ==
  /\ last.op = "addUrl"
  /\ Len(urls) = 2
  /\ urlInput # <<>>
  /\ urlInput[1] \in Whitespace
  /\ \E i \in 1..Len(urls) : urls[i] = SubSeq(urlInput, 2, Len(urlInput))

\* C8: a valid analyze invocation through the control sets isAnalyzing, clears
\* result and error, and issues exactly one request whose body is the list.
C8_ValidAnalyzeStarts ==
  [][(last'.op \in AnalyzeOps /\ Len(urls) # 0) =>
       /\ isAnalyzing'
       /\ result' = Null
       /\ error' = Null
       /\ Len(requests') = Len(requests) + 1
       /\ requests'[Len(requests')].body = urls
       /\ requests'[Len(requests')].phase = "fetch"]_vars

\* a request just issued for a two-entry list
C8_Witness ==
  /\ last.op = "analyze"
  /\ isAnalyzing
  /\ Len(urls) = 2
  /\ Len(requests) = 1
  /\ requests[1].body = urls
  /\ result = Null /\ error = Null

GenericMessages == {HttpFallbackMessage, ThrownFallbackMessage}

\* C9 as stated: after every non-success response the session is Failed with
\* result null, and error is the detail field when present, else a generic
\* fallback.
C9_Original ==
  last.op \in {"httpError", "errorBodyRejected"} =>
    /\ ~isAnalyzing
    /\ result = Null
    /\ error # Null
    /\ IF last.detail # Null /\ last.detail[1] # Null
         THEN error = last.detail[1]
         ELSE error[1] \in GenericMessages

\* C9 amended: after a non-success response whose body parses, the session is
\* Failed with result null and error is the detail field when it is a non-empty
\* string, else the fallback "Oshibka pri analize" (also for an empty detail);
\* when the body does not parse, error is the message of the thrown value.
C9_HttpErrorMessage ==
  /\ last.op = "httpError" =>
       /\ ~isAnalyzing
       /\ result = Null
       /\ error = IF last.detail[1] # Null /\ last.detail[1] # Some("")
                    THEN last.detail[1]
                    ELSE Some(HttpFallbackMessage)
  /\ last.op = "errorBodyRejected" =>
       /\ ~isAnalyzing
       /\ result = Null
       /\ error = IF last.thrown[1].isError
                    THEN Some(last.thrown[1].message)
                    ELSE Some(ThrownFallbackMessage)

\* a 4xx body whose detail is the empty string: the fallback is shown
C9_Witness ==
  /\ last.op = "httpError"
  /\ last.detail = Some(Some(""))
  /\ error = Some(HttpFallbackMessage)
  /\ result = Null

\* C10: a rejected fetch or response.json() sets error to the message of a thrown
\* Error, else to the generic fallback, resets isAnalyzing and leaves result as
\* it was.
C10_ExceptionFails ==
  [][last'.op \in RejectOps =>
       /\ error' = Some(IF last'.thrown[1].isError
                          THEN last'.thrown[1].message
                          ELSE ThrownFallbackMessage)
       /\ ~isAnalyzing'
       /\ result' = result]_vars

\* response.json() of an ok response threw a value that is not an Error
C10_Witness ==
  /\ last.op = "okBodyRejected"
  /\ ~last.thrown[1].isError
  /\ error = Some(ThrownFallbackMessage)
  /\ result = Null

\* C11: after a success response the session is Succeeded: result is exactly the
\* received { report_text, pdf_path, charts }, error is still null and
\* isAnalyzing is false.
C11_SuccessSucceeds ==
  last.op = "success" =>
    /\ result = last.data
    /\ result[1] \in Payloads
    /\ error = Null
    /\ ~isAnalyzing
    /\ SessionKind(isAnalyzing, result, error) = "Succeeded"

\* a success response carrying a pdf_path and a chart was just applied
C11_Witness ==
  /\ last.op = "success"
  /\ result # Null
  /\ result[1].pdf_path # <<>>
  /\ result[1].charts # <<>>
  /\ requests = <<>>

\* s is made of whitespace only (or is empty)
Blank(s) == \A k \in 1..Len(s) : s[k] \in Whitespace

\* s is e with whitespace, and nothing else, before and after it
IsPaddingOf(s, e) ==
  \E i \in 0..(Len(s) - Len(e)) :
    /\ SubSeq(s, i + 1, i + Len(e)) = e
    /\ \A k \in 1..Len(s) : (k <= i \/ k > i + Len(e)) => s[k] \in Whitespace

InList(s) == \E k \in 1..Len(urls) : IsPaddingOf(s, urls[k])

\* C12: addUrl on an input that is blank, or that is a padded spelling of an
\* entry of the list, changes neither the list nor the input field.
C12_AddNoOp ==
  [][(last'.op = "addUrl" /\ (Blank(urlInput) \/ InList(urlInput))) =>
       /\ urls' = urls
       /\ urlInput' = urlInput]_vars

\* the same URL was offered a second time: the list is as after the first add
C12_Witness ==
  /\ last.op = "addUrl"
  /\ urlInput = <<"a">>
  /\ urls = << <<"a">> >>

\* C13: addUrl on an input that is not blank and not in the list appends the
\* trimmed input as the last element, keeps the elements before it, and clears
\* the input field.
C13_AddAppends ==
  [][(last'.op = "addUrl" /\ ~Blank(urlInput) /\ ~InList(urlInput)) =>
       /\ Len(urls') = Len(urls) + 1
       /\ SubSeq(urls', 1, Len(urls)) = urls
       /\ IsPaddingOf(urlInput, urls'[Len(urls')])
       /\ urls'[Len(urls')][1] \notin Whitespace
       /\ urls'[Len(urls')][Len(urls'[Len(urls')])] \notin Whitespace
       /\ urlInput' = <<>>]_vars

\* two URLs were taken in the order typed, the second with its inner space
C13_Witness ==
  /\ last.op = "addUrl"
  /\ urls = << <<"a">>, <<"b", " ", "c">> >>
  /\ urlInput = <<>>

C15_RemoveOutOfRange ==
  [][(last'.op = "removeUrl" /\ (last'.index[1] < 0 \/ last'.index[1] >= Len(urls))) =>
       /\ urls' = urls
       /\ error' = error
       /\ urlInput' = urlInput
       /\ isAnalyzing' = isAnalyzing
       /\ result' = result
       /\ requests' = requests]_vars

\* removeUrl(-1) was called on a two-entry list, which is still whole
C15_Witness ==
  /\ last.op = "removeUrl"
  /\ last.index = Some(-1)
  /\ Len(urls) = 2
  /\ error = Null

\* C16: the stored result changes only when an analyze invocation on a
\* non-empty list nulls it or a success response replaces it by its payload;
\* typing, addUrl, removeUrl, the download action and an analyze invocation on
\* an empty list leave it as it is.
C16_ResultFrame ==
  [][/\ (result' # result =>
           \/ (last'.op = "analyze" /\ Len(urls) # 0 /\ result' = Null)
           \/ (last'.op = "success" /\ result' = last'.data))
     /\ (last'.op \in {"onChange", "addUrl", "removeUrl", "downloadPDF", "analyzeEmpty"} =>
           result' = result)]_vars

\* a displayed result outlived the adding of a second URL
C16_Witness ==
  /\ last.op = "addUrl"
  /\ result # Null
  /\ Len(urls) = 2
  /\ urlInput = <<>>

\* C17: the download action opens nothing when there is no result or the
\* result's pdf_path is empty; otherwise it opens exactly one new browsing
\* context at API_BASE/api/download?path= followed by the percent-encoded
\* pdf_path ("/r/a b.pdf" gives %2Fr%2Fa%20b.pdf); it never changes the list,
\* the input field, the session cells or the requests in flight.
C17_Download ==
  [][last'.op = "downloadPDF" =>
       /\ form' = form /\ session' = session /\ requests' = requests
       /\ IF result = Null \/ result[1].pdf_path = <<>>
            THEN last'.opened = <<>>
            ELSE /\ Len(last'.opened) = 1
                 /\ last'.opened[1].target = "_blank"
                 /\ last'.opened[1].url =
                      <<API_BASE, "/api/download?path=">> \o encodeURIComponent(result[1].pdf_path)
                 /\ (result[1].pdf_path = <<"/", "r", "/", "a", " ", "b", ".", "p", "d", "f">> =>
                       SubSeq(last'.opened[1].url, 3, Len(last'.opened[1].url)) =
                         <<"%", "2", "F", "r", "%", "2", "F", "a", "%", "2", "0", "b", ".", "p", "d", "f">>)]_vars

\* the download of the report at "/r/a b.pdf" opened one browsing context
C17_Witness ==
  /\ last.op = "downloadPDF"
  /\ Len(last.opened) = 1
  /\ result # Null
  /\ result[1].pdf_path # <<>>

\* seg is what follows the last "/" of path (all of path when it has none)
IsLastSegment(seg, path) ==
  /\ \A k \in 1..Len(seg) : seg[k] # "/"
  /\ Len(seg) <= Len(path)
  /\ SubSeq(path, Len(path) - Len(seg) + 1, Len(path)) = seg
  /\ (Len(seg) < Len(path) => path[Len(path) - Len(seg)] = "/")

\* C18: a displayed result with charts renders one image per chart path, in
\* order, each with source API_BASE/charts/ followed by the last segment of the
\* path ("/c/1.png" gives .../charts/1.png); without a result, or with no
\* charts, no chart image is rendered.
C18_ChartImages ==
  IF result = Null \/ result[1].charts = <<>>
    THEN chartImages = <<>>
    ELSE /\ Len(chartImages) = Len(result[1].charts)
         /\ \A i \in 1..Len(chartImages) :
              /\ SubSeq(chartImages[i].src, 1, 2) = <<API_BASE, "/charts/">>
              /\ IsLastSegment(SubSeq(chartImages[i].src, 3, Len(chartImages[i].src)),
                               result[1].charts[i])
              /\ (result[1].charts[i] = <<"/", "c", "/", "1", ".", "p", "n", "g">> =>
                    chartImages[i].src = <<API_BASE, "/charts/", "1", ".", "p", "n", "g">>)

\* the report with the charts "/c/1.png" and "2.png" is displayed with two images
C18_Witness ==
  /\ result # Null
  /\ Len(chartImages) = 2
  /\ chartImages[1].src = <<API_BASE, "/charts/", "1", ".", "p", "n", "g">>
  /\ chartImages[2].src = <<API_BASE, "/charts/", "2", ".", "p", "n", "g">>
  /\ last.op = "success"

\* C19: the add and remove controls stay enabled while a request is in flight
\* and change none of isAnalyzing, result, error; the body of a request is the
\* list as it was when analyze was invoked and later edits do not change it;
\* handling a response changes neither the list nor the input field.
C19_EditsAndResponsesApart ==
  [][/\ (isAnalyzing => (ENABLED ClickAdd) /\ (Len(urls) > 0 => ENABLED ClickRemove))
     /\ (last'.op \in {"onChange", "addUrl", "removeUrl"} =>
           session' = session /\ requests' = requests)
     /\ (last'.op = "analyze" => requests'[Len(requests')].body = urls)
     /\ (Len(requests') = Len(requests) =>
           \A i \in 1..Len(requests) : requests'[i].body = requests[i].body)
     /\ (last'.op \in TerminalOps \cup {"response"} => urls' = urls /\ urlInput' = urlInput)]_vars

\* an entry was removed while a request was in flight: its body is the old list
C19_Witness ==
  /\ last.op = "removeUrl"
  /\ isAnalyzing
  /\ Len(requests) = 1
  /\ Len(requests[1].body) = 2
  /\ Len(urls) = 1

====
